---- MODULE Spec2Model ----
(***************************************************************************)
(* The drag state machine of react-draggable-ts: the pointer tracker       *)
(* (DraggableCore) and the position reconciler (Draggable) built on it,    *)
(* with the document-level listeners and the body's text-selection class   *)
(* they own.  Every handler runs to completion inside one action.          *)
(***************************************************************************)
EXTENDS Integers, Sequences, FiniteSets, TLC

\* ---------------------------------------------------------------- bounds
\* Pointer coordinates are drawn from 0..MaxX and 0..MaxY (times scale^2, so
\* that both divisions by scale are exact), and from a region one smaller each
\* way where every handler may interleave with every other; touch identifiers
\* from 0..MaxTouchId; the environment stops moving the pointer once the
\* reconciler's position would leave -MaxPos..MaxPos.
MaxX == 2
MaxY == 1
MaxTouchId == 1
MaxPos == 2

\* ------------------------------------------------------- value sentinels
\* JavaScript's NaN / undefined number: no coordinate of the model reaches it.
NaN == -1000
\* touchIdentifier null / undefined (typeof is not 'number').
NoTouch == -1
\* e.button undefined (touch events carry no button).
NoButton == -1

\* isNum of utils/draggable/shims: a number that is not NaN.
isNum(v) == v # NaN

\* JavaScript arithmetic on numbers that may be NaN.
Plus(a, b) == IF isNum(a) /\ isNum(b) THEN a + b ELSE NaN
Minus(a, b) == IF isNum(a) /\ isNum(b) THEN a - b ELSE NaN
Times(a, b) == IF isNum(a) /\ isNum(b) THEN a * b ELSE NaN
\* a / s for s > 0; the inputs of the model keep the quotient an integer.
Div(a, s) == IF isNum(a) THEN a \div s ELSE NaN
MathMin(a, b) == IF isNum(a) /\ isNum(b) THEN (IF a < b THEN a ELSE b) ELSE NaN
MathMax(a, b) == IF isNum(a) /\ isNum(b) THEN (IF a > b THEN a ELSE b) ELSE NaN
\* Math.round(p / g) for g > 0: the nearest integer, halves rounded up.
MathRoundDiv(p, g) == IF isNum(p) THEN (2 * p + g) \div (2 * g) ELSE NaN
\* v || 0 on a number: NaN and 0 are falsy.
OrZero(v) == IF isNum(v) THEN v ELSE 0
\* Nothing counts as falsy.
Falsy_Never(v) == FALSE

\* !v on a number.
Falsy(v) == v = 0 \/ ~isNum(v)

\* ------------------------------------------------------------ eventsFor
eventsFor ==
  [touch |-> [start |-> "touchstart", move |-> "touchmove", stop |-> "touchend"],
   mouse |-> [start |-> "mousedown", move |-> "mousemove", stop |-> "mouseup"]]

MoveNames == {"mousemove", "touchmove"}
StopNames == {"mouseup", "touchend"}

VARIABLES
  mounted,       \* DraggableCore.mounted
  torn,          \* the host has unmounted the component
  area,          \* the region the pointer moves in: [maxX, maxY], and whether
                 \* the sums of what a session was told are kept: audit
  touching,      \* the identifiers of the fingers resting on the element
  props,         \* the props the host gives (scale, grid, bounds, position, ...)
  core,          \* DraggableCore.state
  dragEventFor,  \* DraggableCore.dragEventFor: "mouse" or "touch"
  listeners,     \* event names with a listener of this tracker on the document
  userSelect,    \* the body carries react-draggable-transparent-selection
  st,            \* Draggable.state
  ev,            \* the handler that ran last, and the touch identifiers it saw
  calls,         \* the callbacks invoked while the last event was handled
  sess           \* what the callbacks of the current session were told so far

vars == <<mounted, torn, area, touching, props, core, dragEventFor, listeners, userSelect, st, ev, calls, sess>>

\* ------------------------------------------------------------- DOM helpers
Range(s) == {s[i] : i \in 1..Len(s)}

\* findInArray over a touch list: the first touch with that identifier, as a
\* list of zero or one touch.
FindTouch(list, identifier) ==
  LET hits == {i \in 1..Len(list) : list[i].identifier = identifier}
  IN  IF hits = {} THEN <<>>
      ELSE <<list[CHOOSE i \in hits : \A j \in hits : i <= j]>>

getTouchIdentifier(e) ==
  IF Len(e.targetTouches) > 0 THEN e.targetTouches[1].identifier
  ELSE IF Len(e.changedTouches) > 0 THEN e.changedTouches[1].identifier
  ELSE NoTouch

\* A wrong finger answers every identifier with the event's first touch.
getTouch_AnyFinger(e, identifier) ==
  IF Len(e.targetTouches) > 0 THEN <<e.targetTouches[1]>>
  ELSE IF Len(e.changedTouches) > 0 THEN <<e.changedTouches[1]>>
  ELSE <<>>

\* The touch with that identifier in targetTouches, else in changedTouches;
\* <<>> when neither list has it (or the event has no touch lists).
getTouch(e, identifier) ==
  IF FindTouch(e.targetTouches, identifier) # <<>>
  THEN FindTouch(e.targetTouches, identifier)
  ELSE FindTouch(e.changedTouches, identifier)

\* The offset parent of the tracked node: the document body, not scrolled.
\* Its bounding rectangle is not at the origin, and is not consulted.
OffsetParent ==
  [isBody |-> TRUE, scrollLeft |-> 0, scrollTop |-> 0, rectLeft |-> 1, rectTop |-> 1]

offsetXYFromParent(evt, offsetParent, scale) ==
  LET left == IF offsetParent.isBody THEN 0 ELSE offsetParent.rectLeft
      top == IF offsetParent.isBody THEN 0 ELSE offsetParent.rectTop
  IN  [x |-> Div(Minus(Plus(evt.clientX, offsetParent.scrollLeft), left), scale),
       y |-> Div(Minus(Plus(evt.clientY, offsetParent.scrollTop), top), scale)]

\* The client coordinates of the pointer an event is resolved to: those of the
\* tracked touch, or the event's own.
RawPointer(e, touchIdentifier) ==
  LET touchObj == IF touchIdentifier # NoTouch THEN getTouch(e, touchIdentifier) ELSE <<>>
      p == IF touchObj # <<>> THEN touchObj[1] ELSE e
  IN  [x |-> p.clientX, y |-> p.clientY]

\* null is <<>>; a position is a one-element list.
getControlPosition(e, touchIdentifier) ==
  LET touchObj == IF touchIdentifier # NoTouch THEN getTouch(e, touchIdentifier) ELSE <<>>
  IN  IF touchIdentifier # NoTouch /\ touchObj = <<>> THEN <<>>
      ELSE <<offsetXYFromParent(IF touchObj # <<>> THEN touchObj[1] ELSE e,
                                OffsetParent, props.scale)>>

createCoreData(state, x, y) ==
  IF ~isNum(state.lastX)
  THEN [deltaX |-> 0, deltaY |-> 0, lastX |-> x, lastY |-> y, x |-> x, y |-> y]
  ELSE [deltaX |-> Minus(x, state.lastX), deltaY |-> Minus(y, state.lastY),
        lastX |-> state.lastX, lastY |-> state.lastY, x |-> x, y |-> y]

\* The reported position is the stored one: the delta is not added to it.
createDraggableData_Stale(state, coreData) ==
  [x |-> state.x,
   y |-> state.y,
   deltaX |-> Div(coreData.deltaX, props.scale),
   deltaY |-> Div(coreData.deltaY, props.scale),
   lastX |-> state.x, lastY |-> state.y]

createDraggableData(state, coreData) ==
  [x |-> Plus(state.x, Div(coreData.deltaX, props.scale)),
   y |-> Plus(state.y, Div(coreData.deltaY, props.scale)),
   deltaX |-> Div(coreData.deltaX, props.scale),
   deltaY |-> Div(coreData.deltaY, props.scale),
   lastX |-> state.x, lastY |-> state.y]

\* The pending delta is cut down to the grid multiple below it, not rounded.
snapToGrid_Floor(grid, pendingX, pendingY) ==
  <<Times(Div(pendingX, grid.x), grid.x), Times(Div(pendingY, grid.y), grid.y)>>

\* The pending delta is rounded to multiples of twice the step.
snapToGrid_Coarse(grid, pendingX, pendingY) ==
  <<Times(MathRoundDiv(pendingX, 2 * grid.x), 2 * grid.x),
    Times(MathRoundDiv(pendingY, 2 * grid.y), 2 * grid.y)>>

snapToGrid(grid, pendingX, pendingY) ==
  <<Times(MathRoundDiv(pendingX, grid.x), grid.x),
    Times(MathRoundDiv(pendingY, grid.y), grid.y)>>

\* Only the left and top limits are applied.
getBoundPosition_NoUpper(bounds, x, y) ==
  IF bounds.kind = "none" THEN <<x, y>>
  ELSE <<IF isNum(bounds.left) THEN MathMax(x, bounds.left) ELSE x,
         IF isNum(bounds.top) THEN MathMax(y, bounds.top) ELSE y>>

\* The position goes on as it came, whatever the bounds are.
getBoundPosition_Unclamped(bounds, x, y) == <<x, y>>

\* A selector (or 'parent') that finds an element gives the limits the layout
\* yields; one that finds none throws, which is <<>>.
getBoundPosition(bounds, x, y) ==
  IF bounds.kind = "none" THEN <<x, y>>
  ELSE IF bounds.kind = "missing" THEN <<>>
  ELSE LET x1 == IF isNum(bounds.right) THEN MathMin(x, bounds.right) ELSE x
           y1 == IF isNum(bounds.bottom) THEN MathMin(y, bounds.bottom) ELSE y
       IN  <<IF isNum(bounds.left) THEN MathMax(x1, bounds.left) ELSE x1,
             IF isNum(bounds.top) THEN MathMax(y1, bounds.top) ELSE y1>>

\* ------------------------------------------------------------- callbacks
\* One callback invocation: which callback, the record it was handed, and
\* whether it returned something other than false.
Call(name, d, ret) ==
  [name |-> name, x |-> d.x, y |-> d.y, deltaX |-> d.deltaX, deltaY |-> d.deltaY,
   lastX |-> d.lastX, lastY |-> d.lastY, ret |-> ret]

NoData == [x |-> 0, y |-> 0, deltaX |-> 0, deltaY |-> 0, lastX |-> 0, lastY |-> 0]

\* An error is thrown: the handler ends there, and the error is on record.
Thrown(w) == [w EXCEPT !.calls = Append(@, Call("Error", NoData, FALSE)), !.thrown = TRUE]

\* ------------------------------------------------------------- Draggable
getDerivedStateFromProps(position, state) ==
  IF position.set /\ (position.x # state.prevPropsPosition.x
                      \/ position.y # state.prevPropsPosition.y)
  THEN [state EXCEPT !.x = position.x, !.y = position.y,
                     !.prevPropsPosition = [x |-> position.x, y |-> position.y]]
  ELSE state

\* Draggable's setState: the update, then the render's getDerivedStateFromProps.
setState(state) == getDerivedStateFromProps(props.position, state)

DraggableInit(p) ==
  [dragging |-> FALSE, dragged |-> FALSE,
   x |-> IF p.position.set THEN p.position.x ELSE p.defaultPosition.x,
   y |-> IF p.position.set THEN p.position.y ELSE p.defaultPosition.y,
   prevPropsPosition |-> IF p.position.set
                         THEN [x |-> p.position.x, y |-> p.position.y]
                         ELSE p.defaultPosition,
   slackX |-> 0, slackY |-> 0]

\* The session's running sums after a move callback was told d and answered
\* ret; they are kept for as long as no callback of the session has vetoed,
\* and only where the audit is on (one pointer stream at a time).
Told(s, d, ret) ==
  IF ~area.audit THEN [s EXCEPT !.vetoed = @ \/ ~ret]
  ELSE IF s.vetoed \/ ~ret
  THEN [s EXCEPT !.sumDX = 0, !.sumDY = 0, !.coreSumDX = 0, !.coreSumDY = 0, !.vetoed = TRUE]
  ELSE [s EXCEPT !.sumDX = Plus(@, d.deltaX), !.sumDY = Plus(@, d.deltaY)]

ToldCore(s, d) ==
  IF s.vetoed \/ ~area.audit THEN s
  ELSE [s EXCEPT !.coreSumDX = Plus(@, d.deltaX), !.coreSumDY = Plus(@, d.deltaY)]

\* The instance is unmounted.  React applies no state update to an instance
\* that is being or has been unmounted: the setState({dragging: false}) of
\* componentWillUnmount, and every setState after it, leaves the state as it
\* is.
componentWillUnmount(w) == [w EXCEPT !.torn = TRUE]

Applied(w, state) == IF w.torn THEN w.st ELSE setState(state)

\* A callback of the host has run, and the host may have unmounted the
\* component from inside it.
HostRan(w, rets) == IF rets.unmount THEN componentWillUnmount(w) ELSE w

\* Each of the three handlers answers [w, ret]: the state it leaves and whether
\* it returned something other than false.
\* The reconciler takes itself to be dragging whether or not the host's
\* start callback vetoed.
onDragStart_DragsAnyway(w, coreData, rets) ==
  LET data == createDraggableData(w.st, coreData)
      w1 == [w EXCEPT !.calls = Append(@, Call("onStart", data, rets.onStart))]
  IN  [w |-> [w1 EXCEPT !.st = setState([@ EXCEPT !.dragging = TRUE, !.dragged = TRUE])],
       ret |-> rets.onStart]

onDragStart(w, coreData, rets) ==
  LET data == createDraggableData(w.st, coreData)
      w1 == HostRan([w EXCEPT !.calls = Append(@, Call("onStart", data, rets.onStart)),
                              !.sess = IF area.audit
                                       THEN [@ EXCEPT !.startX = data.x, !.startY = data.y,
                                                      !.sumDX = data.deltaX,
                                                      !.sumDY = data.deltaY]
                                       ELSE @], rets)
  IN  IF ~rets.onStart THEN [w |-> w1, ret |-> FALSE]
      ELSE [w |-> [w1 EXCEPT !.st = Applied(w1, [@ EXCEPT !.dragging = TRUE, !.dragged = TRUE])],
            ret |-> TRUE]

\* The slack is not carried: each move clamps the provisional position alone.
onDrag_NoSlack(w, coreData, rets) ==
  IF ~w.st.dragging THEN [w |-> w, ret |-> FALSE]
  ELSE
    LET ui == createDraggableData(w.st, coreData)
        bounded == props.bounds.kind # "none"
        clamped == getBoundPosition(props.bounds, ui.x, ui.y)
        newState == IF bounded
                    THEN [w.st EXCEPT !.x = clamped[1], !.y = clamped[2],
                                      !.slackX = Minus(ui.x, clamped[1]),
                                      !.slackY = Minus(ui.y, clamped[2])]
                    ELSE [w.st EXCEPT !.x = ui.x, !.y = ui.y]
        uiData == IF bounded
                  THEN [ui EXCEPT !.x = newState.x, !.y = newState.y,
                                  !.deltaX = Minus(newState.x, w.st.x),
                                  !.deltaY = Minus(newState.y, w.st.y)]
                  ELSE ui
        w1 == [w EXCEPT !.calls = Append(@, Call("onDrag", uiData, rets.onDrag)),
                        !.sess = Told(@, uiData, rets.onDrag)]
    IN  IF ~rets.onDrag THEN [w |-> w1, ret |-> FALSE]
        ELSE [w |-> [w1 EXCEPT !.st = setState(newState)], ret |-> TRUE]

\* The slack is accumulated but not added to the position that is clamped.
onDrag_SlackNotConsumed(w, coreData, rets) ==
  IF ~w.st.dragging THEN [w |-> w, ret |-> FALSE]
  ELSE
    LET ui == createDraggableData(w.st, coreData)
        bounded == props.bounds.kind # "none"
        clamped == getBoundPosition(props.bounds, ui.x, ui.y)
        newState == IF bounded
                    THEN [w.st EXCEPT !.x = clamped[1], !.y = clamped[2],
                                      !.slackX = Plus(w.st.slackX, Minus(ui.x, clamped[1])),
                                      !.slackY = Plus(w.st.slackY, Minus(ui.y, clamped[2]))]
                    ELSE [w.st EXCEPT !.x = ui.x, !.y = ui.y]
        uiData == IF bounded
                  THEN [ui EXCEPT !.x = newState.x, !.y = newState.y,
                                  !.deltaX = Minus(newState.x, w.st.x),
                                  !.deltaY = Minus(newState.y, w.st.y)]
                  ELSE ui
        w1 == [w EXCEPT !.calls = Append(@, Call("onDrag", uiData, rets.onDrag)),
                        !.sess = Told(@, uiData, rets.onDrag)]
    IN  IF ~rets.onDrag THEN [w |-> w1, ret |-> FALSE]
        ELSE [w |-> [w1 EXCEPT !.st = setState(newState)], ret |-> TRUE]

onDrag(w, coreData, rets) ==
  IF ~w.st.dragging THEN [w |-> w, ret |-> FALSE]
  ELSE
    LET ui == createDraggableData(w.st, coreData)
        bounded == props.bounds.kind # "none"
        \* the provisional position with the slack added, then clamped
        clamped == getBoundPosition(props.bounds, Plus(ui.x, w.st.slackX),
                                                  Plus(ui.y, w.st.slackY))
        newState == IF bounded
                    THEN [w.st EXCEPT !.x = clamped[1], !.y = clamped[2],
                                      !.slackX = Plus(w.st.slackX, Minus(ui.x, clamped[1])),
                                      !.slackY = Plus(w.st.slackY, Minus(ui.y, clamped[2]))]
                    ELSE [w.st EXCEPT !.x = ui.x, !.y = ui.y]
        uiData == IF bounded
                  THEN [ui EXCEPT !.x = newState.x, !.y = newState.y,
                                  !.deltaX = Minus(newState.x, w.st.x),
                                  !.deltaY = Minus(newState.y, w.st.y)]
                  ELSE ui
        w1 == HostRan([w EXCEPT !.calls = Append(@, Call("onDrag", uiData, rets.onDrag)),
                                !.sess = Told(@, uiData, rets.onDrag)], rets)
    IN  IF bounded /\ clamped = <<>> THEN [w |-> Thrown(w), ret |-> FALSE]
        ELSE IF ~rets.onDrag THEN [w |-> w1, ret |-> FALSE]
        ELSE [w |-> [w1 EXCEPT !.st = Applied(w1, newState)], ret |-> TRUE]

\* The stop callback has run: the position is not put back to the host's.
onDragStop_KeepsPosition(w, coreData, rets) ==
  IF ~w.st.dragging THEN [w |-> w, ret |-> FALSE]
  ELSE
    LET data == createDraggableData(w.st, coreData)
        w1 == [w EXCEPT !.calls = Append(@, Call("onStop", data, rets.onStop))]
    IN  [w |-> [w1 EXCEPT !.st = [@ EXCEPT !.dragging = FALSE, !.slackX = 0, !.slackY = 0]],
         ret |-> TRUE]

\* The stop callback has run: the slack is left as the moves left it.
onDragStop_KeepsSlack(w, coreData, rets) ==
  IF ~w.st.dragging THEN [w |-> w, ret |-> FALSE]
  ELSE
    LET data == createDraggableData(w.st, coreData)
        w1 == [w EXCEPT !.calls = Append(@, Call("onStop", data, rets.onStop))]
        reset == [w1.st EXCEPT !.dragging = FALSE]
        newState == IF props.position.set
                    THEN [reset EXCEPT !.x = props.position.x, !.y = props.position.y]
                    ELSE reset
    IN  IF ~rets.onStop THEN [w |-> w1, ret |-> FALSE]
        ELSE [w |-> [w1 EXCEPT !.st = setState(newState)], ret |-> TRUE]

onDragStop(w, coreData, rets) ==
  IF ~w.st.dragging THEN [w |-> w, ret |-> FALSE]
  ELSE
    LET data == createDraggableData(w.st, coreData)
        w1 == HostRan([w EXCEPT !.calls = Append(@, Call("onStop", data, rets.onStop)),
                                !.sess = [@ EXCEPT !.vetoed = @ \/ ~rets.onStop]], rets)
        reset == [w1.st EXCEPT !.dragging = FALSE, !.slackX = 0, !.slackY = 0]
        newState == IF props.position.set
                    THEN [reset EXCEPT !.x = props.position.x, !.y = props.position.y]
                    ELSE reset
    IN  IF ~rets.onStop THEN [w |-> w1, ret |-> FALSE]
        ELSE [w |-> [w1 EXCEPT !.st = Applied(w1, newState)], ret |-> TRUE]

\* --------------------------------------------------------- DraggableCore
CoreInit == [dragging |-> FALSE, lastX |-> NaN, lastY |-> NaN, touchIdentifier |-> NoTouch]

SessInit ==
  [startX |-> 0, startY |-> 0, sumDX |-> 0, sumDY |-> 0,
   coreSumDX |-> 0, coreSumDY |-> 0,
   rawX |-> 0, rawY |-> 0, rawSumX |-> 0, rawSumY |-> 0,
   opened |-> {}, vetoed |-> FALSE]

\* new MouseEvent('mouseup'): at the client origin, primary button, no touches.
SyntheticMouseUp ==
  [type |-> "mouseup", clientX |-> 0, clientY |-> 0, button |-> 0,
   targetTouches |-> <<>>, changedTouches |-> <<>>, inHandle |-> TRUE, inCancel |-> FALSE]

\* The pointer travel of the stream so far, in client coordinates.
Observe(w, e) ==
  LET raw == RawPointer(e, w.core.touchIdentifier)
  IN  IF ~area.audit THEN w ELSE
      [w EXCEPT !.sess = [@ EXCEPT !.rawSumX = Plus(@, Minus(raw.x, w.sess.rawX)),
                                   !.rawSumY = Plus(@, Minus(raw.y, w.sess.rawY)),
                                   !.rawX = raw.x, !.rawY = raw.y]]

\* The names of the remembered family are removed whether or not the stop
\* callback vetoed.
handleDragStop_IgnoreVeto(w, e, rets) ==
  IF ~w.core.dragging THEN w
  ELSE
    LET position == getControlPosition(e, w.core.touchIdentifier)
    IN  IF position = <<>> THEN w
        ELSE
          LET r == onDragStop(w, createCoreData(w.core, position[1].x, position[1].y), rets)
          IN  [r.w EXCEPT !.userSelect = FALSE,
                          !.core = [@ EXCEPT !.dragging = FALSE, !.lastX = NaN, !.lastY = NaN],
                          !.listeners = @ \ {eventsFor[w.dragEventFor].move,
                                             eventsFor[w.dragEventFor].stop}]

\* findDOMNode finds no node once the component is unmounted: a handler that
\* asks for it ends there.
handleDragStop(w, e, rets) ==
  IF ~w.core.dragging \/ w.torn THEN w
  ELSE
    LET position == getControlPosition(e, w.core.touchIdentifier)
    IN  IF position = <<>> THEN w
        ELSE
          LET px == position[1].x
              py == position[1].y
              snapped == snapToGrid(props.grid, OrZero(Minus(px, w.core.lastX)),
                                                OrZero(Minus(py, w.core.lastY)))
              x == IF props.grid.set THEN Plus(w.core.lastX, snapped[1]) ELSE px
              y == IF props.grid.set THEN Plus(w.core.lastY, snapped[2]) ELSE py
              coreEvent == createCoreData(w.core, x, y)
              r == onDragStop(Observe(w, e), coreEvent, rets)
              w1 == [r.w EXCEPT !.calls = Append(@, Call("core.onStop", coreEvent, r.ret))]
          IN  IF ~r.ret \/ ~mounted \/ w1.torn THEN w1
              ELSE [w1 EXCEPT
                      !.userSelect = IF props.enableUserSelectHack THEN FALSE ELSE @,
                      !.core = [@ EXCEPT !.dragging = FALSE, !.lastX = NaN, !.lastY = NaN],
                      !.listeners = @ \ {eventsFor[w.dragEventFor].move,
                                         eventsFor[w.dragEventFor].stop}]

\* The start callback's veto is not honoured.
handleDragStart_IgnoreVeto(w, e, rets) ==
  LET touchIdentifier == getTouchIdentifier(e)
      position == getControlPosition(e, touchIdentifier)
      r == onDragStart(w, createCoreData(w.core, position[1].x, position[1].y), rets)
  IN  [r.w EXCEPT !.userSelect = TRUE,
                  !.core = [dragging |-> TRUE, lastX |-> position[1].x,
                            lastY |-> position[1].y, touchIdentifier |-> touchIdentifier],
                  !.listeners = @ \cup {eventsFor[w.dragEventFor].move,
                                        eventsFor[w.dragEventFor].stop}]

\* The node is taken to be there whatever became of the component.
NotMounted_Never(w) == FALSE

\* !thisNode || !thisNode.ownerDocument || !thisNode.ownerDocument.body
NotMounted(w) == w.torn

handleDragStart(w, e, rets) ==
  LET w0 == [w EXCEPT !.calls = Append(@, Call("onMouseDown", NoData, TRUE))]
  IN  IF ~props.allowAnyClick /\ e.button # NoButton /\ e.button # 0 THEN w0
      ELSE IF NotMounted(w) THEN Thrown(w0)
      ELSE IF props.disabled
              \/ (props.handle /\ ~e.inHandle)
              \/ (props.cancel /\ e.inCancel) THEN w0
      ELSE
        LET touchIdentifier == getTouchIdentifier(e)
            w1 == [w0 EXCEPT !.core.touchIdentifier = touchIdentifier]
            position == getControlPosition(e, touchIdentifier)
        IN  IF position = <<>> THEN w1
            ELSE
              LET x == position[1].x
                  y == position[1].y
                  coreEvent == createCoreData(w1.core, x, y)
                  raw == RawPointer(e, touchIdentifier)
                  r == onDragStart([w1 EXCEPT !.sess = IF area.audit
                                                       THEN [SessInit EXCEPT !.rawX = raw.x,
                                                                             !.rawY = raw.y]
                                                       ELSE SessInit],
                                   coreEvent, rets)
                  w2 == [r.w EXCEPT !.calls = Append(@, Call("core.onStart", coreEvent, r.ret))]
              IN  IF ~r.ret \/ ~mounted THEN [w2 EXCEPT !.sess = w.sess]
                  ELSE [w2 EXCEPT
                          !.userSelect = IF props.enableUserSelectHack THEN TRUE ELSE @,
                          !.core = IF w2.torn THEN @
                                   ELSE [@ EXCEPT !.dragging = TRUE, !.lastX = x, !.lastY = y],
                          !.listeners = @ \cup {eventsFor[w.dragEventFor].move,
                                                eventsFor[w.dragEventFor].stop},
                          !.sess = [@ EXCEPT !.opened = {eventsFor[w.dragEventFor].move,
                                                         eventsFor[w.dragEventFor].stop}]]

handleDrag(w, e, rets) ==
  LET position == getControlPosition(e, w.core.touchIdentifier)
  IN  IF w.torn \/ position = <<>> THEN w
      ELSE
        LET px == position[1].x
            py == position[1].y
            snapped == snapToGrid(props.grid, Minus(px, w.core.lastX), Minus(py, w.core.lastY))
            skip == props.grid.set /\ Falsy(snapped[1]) /\ Falsy(snapped[2])
            x == IF props.grid.set THEN Plus(w.core.lastX, snapped[1]) ELSE px
            y == IF props.grid.set THEN Plus(w.core.lastY, snapped[2]) ELSE py
            coreEvent == createCoreData(w.core, x, y)
            r == onDrag(Observe(w, e), coreEvent, rets)
            w1 == [r.w EXCEPT !.calls = Append(@, Call("core.onDrag", coreEvent, r.ret)),
                              !.sess = ToldCore(@, coreEvent)]
        IN  IF skip THEN Observe(w, e)
            ELSE IF r.w.thrown THEN r.w
            ELSE IF ~r.ret \/ ~mounted THEN handleDragStop(w1, SyntheticMouseUp, rets)
            ELSE [w1 EXCEPT !.core = IF w1.torn THEN @ ELSE [@ EXCEPT !.lastX = x, !.lastY = y]]

onMouseDown(w, e, rets) == handleDragStart([w EXCEPT !.dragEventFor = "mouse"], e, rets)
onMouseUp(w, e, rets) == handleDragStop([w EXCEPT !.dragEventFor = "mouse"], e, rets)
onTouchStart(w, e, rets) == handleDragStart([w EXCEPT !.dragEventFor = "touch"], e, rets)
onTouchEnd(w, e, rets) == handleDragStop([w EXCEPT !.dragEventFor = "touch"], e, rets)

\* ------------------------------------------------------------ the events
XS == {k * props.scale * props.scale : k \in 0..area.maxX}
YS == {k * props.scale * props.scale : k \in 0..area.maxY}

MouseEvent(type, cx, cy, button) ==
  [type |-> type, clientX |-> cx, clientY |-> cy, button |-> button,
   targetTouches |-> <<>>, changedTouches |-> <<>>, inHandle |-> TRUE, inCancel |-> FALSE]

\* A touch event has no clientX, clientY or button of its own.
TouchEvent(type, target, changed) ==
  [type |-> type, clientX |-> NaN, clientY |-> NaN, button |-> NoButton,
   targetTouches |-> target, changedTouches |-> changed,
   inHandle |-> TRUE, inCancel |-> FALSE]

Touches == [identifier : 0..MaxTouchId, clientX : XS, clientY : YS]

Buttons == {0, 2}

MouseEvents(type) == {MouseEvent(type, cx, cy, 0) : cx \in XS, cy \in YS}
MouseDowns == {MouseEvent("mousedown", cx, cy, b) : cx \in XS, cy \in YS, b \in Buttons}

\* The finger the event is about is in changedTouches; targetTouches holds
\* nothing, that finger, or another finger resting on the element.
TouchEvents(type) ==
  UNION {{TouchEvent(type, target, <<t>>) :
            target \in {<<>>, <<t>>} \cup {<<[t EXCEPT !.identifier = i]>> :
                                            i \in 0..MaxTouchId}} :
         t \in Touches}

\* On a touchstart the new finger is among the element's touches, after the
\* fingers already resting on it.
TouchStarts ==
  UNION {{TouchEvent("touchstart", target, <<t>>) :
            target \in {<<t>>} \cup {<<[t EXCEPT !.identifier = i], t>> :
                                       i \in touching}} :
         t \in {u \in Touches : u.identifier \notin touching}}

\* The touchend of a finger that rested on the element.
TouchEnds == {e \in TouchEvents("touchend") : e.changedTouches[1].identifier \in touching}

EventsOf(name) ==
  IF name \in {"mousemove", "mouseup", "mousedown"} THEN MouseEvents(name)
  ELSE TouchEvents(name)

TouchIds(e) == {t.identifier : t \in Range(e.targetTouches) \cup Range(e.changedTouches)}

\* What the host's three callbacks answer, FALSE being the literal false, and
\* whether the host unmounts the component while a callback runs.
AllRets == [onStart : BOOLEAN, onDrag : BOOLEAN, onStop : BOOLEAN, unmount : BOOLEAN]
Rets == {r \in AllRets : ~r.unmount}
NoVeto == [onStart |-> TRUE, onDrag |-> TRUE, onStop |-> TRUE, unmount |-> FALSE]
StartRets == {r \in Rets : r.onDrag /\ r.onStop}
\* the stop callback is reached from a move only when the move callback vetoed
MoveRets == {r \in Rets : r.onStart /\ (r.onDrag => r.onStop)}
StopRets == {r \in Rets : r.onStart /\ r.onDrag}

\* ------------------------------------------------------------ the actions
World ==
  [core |-> core, dragEventFor |-> dragEventFor, listeners |-> listeners,
   userSelect |-> userSelect, st |-> st, calls |-> <<>>, sess |-> sess, torn |-> torn,
   thrown |-> FALSE]

Coord(v) == ~isNum(v) \/ (v >= -MaxPos /\ v <= MaxPos)

\* The environment keeps the element within reach.
InReach(w) == Coord(w.st.x) /\ Coord(w.st.y)

Idle == [handler |-> "none", touchIds |-> {}, button |-> NoButton]

\* One event is handled to completion before the next is dispatched.
Handled(w, handler, e) ==
  /\ ev = Idle
  /\ \E r \in {w} :
       /\ InReach(r)
       /\ core' = r.core
       /\ dragEventFor' = r.dragEventFor
       /\ listeners' = r.listeners
       /\ userSelect' = r.userSelect
       /\ st' = r.st
       /\ calls' = r.calls
       /\ sess' = r.sess
       /\ torn' = r.torn
  /\ ev' = [handler |-> handler, touchIds |-> TouchIds(e), button |-> e.button]
  /\ touching' = CASE handler = "onTouchStart" -> touching \cup {e.changedTouches[1].identifier}
                   [] handler = "onTouchEnd" -> touching \ {e.changedTouches[1].identifier}
                   [] OTHER -> touching
  /\ UNCHANGED <<mounted, area, props>>

\* The handler has returned: the next event can be dispatched.  What the
\* callbacks of a closed session were told is forgotten with it.
Return ==
  /\ ev # Idle
  /\ ev' = Idle
  /\ calls' = <<>>
  /\ sess' = IF core.dragging THEN sess ELSE SessInit
  /\ UNCHANGED <<mounted, torn, area, touching, props, core, dragEventFor, listeners, userSelect, st>>

componentDidMount ==
  /\ ~mounted
  /\ mounted' = TRUE
  /\ UNCHANGED <<torn, area, touching, props, core, dragEventFor, listeners, userSelect, st, ev, calls, sess>>

\* The element's own handlers are reached for as long as it is in the document.
MouseDown(e, rets) == mounted /\ ~torn /\ Handled(onMouseDown(World, e, rets), "onMouseDown", e)
MouseUp(e, rets) == mounted /\ ~torn /\ Handled(onMouseUp(World, e, rets), "onMouseUp", e)
TouchStart(e, rets) == mounted /\ ~torn /\ Handled(onTouchStart(World, e, rets), "onTouchStart", e)
TouchEnd(e, rets) == mounted /\ ~torn /\ Handled(onTouchEnd(World, e, rets), "onTouchEnd", e)

\* A move or stop event reaches the document's listener of its name.
DocumentMove(e, rets) ==
  /\ e.type \in listeners \cap MoveNames
  /\ Handled(handleDrag(World, e, rets), e.type, e)

DocumentStop(e, rets) ==
  /\ e.type \in listeners \cap StopNames
  /\ Handled(handleDragStop(World, e, rets), e.type, e)

\* ------------------------------------------------------------- the props
BaseProps ==
  [scale |-> 1,
   grid |-> [set |-> FALSE, x |-> 0, y |-> 0],
   bounds |-> [kind |-> "none", left |-> NaN, top |-> NaN, right |-> NaN, bottom |-> NaN],
   position |-> [set |-> FALSE, x |-> 0, y |-> 0],
   defaultPosition |-> [x |-> 0, y |-> 0],
   axis |-> "both",
   disabled |-> FALSE, allowAnyClick |-> FALSE, enableUserSelectHack |-> TRUE,
   handle |-> FALSE, cancel |-> FALSE]

InitWith(region, propsSet) ==
  /\ area = region
  /\ touching = {}
  /\ props \in propsSet
  /\ mounted = FALSE
  /\ torn = FALSE
  /\ core = CoreInit
  /\ dragEventFor = "mouse"
  /\ listeners = {}
  /\ userSelect = FALSE
  /\ st = DraggableInit(props)
  /\ ev = Idle
  /\ calls = <<>>
  /\ sess = SessInit

\* --------------------------------------- any interleaving of the handlers
Init == InitWith([maxX |-> MaxX - 1, maxY |-> MaxY - 1, audit |-> FALSE], {BaseProps})

Next ==
  \/ componentDidMount
  \/ Return
  \/ \E e \in MouseDowns, rets \in StartRets : MouseDown(e, rets)
  \/ \E e \in MouseEvents("mouseup"), rets \in StopRets : MouseUp(e, rets)
  \/ \E e \in TouchStarts, rets \in StartRets : TouchStart(e, rets)
  \/ \E e \in TouchEnds, rets \in StopRets : TouchEnd(e, rets)
  \/ \E n \in MoveNames : \E e \in EventsOf(n), rets \in MoveRets : DocumentMove(e, rets)
  \/ \E n \in StopNames : \E e \in EventsOf(n), rets \in StopRets : DocumentStop(e, rets)

Spec == Init /\ [][Next]_vars

\* ------------------------------------------- one pointer stream at a time
\* A pointer goes down while no session is open, and the document then sees
\* the moves and the release of that pointer alone: the mouse, or the finger
\* whose identifier is tracked.
OneFinger(type, t) == TouchEvent(type, IF type = "touchend" THEN <<>> ELSE <<t>>, <<t>>)

StreamEvents(name) ==
  IF name \in {"mousemove", "mouseup"} THEN MouseEvents(name)
  ELSE {OneFinger(name, t) : t \in {u \in Touches : u.identifier = core.touchIdentifier}}

PointerDown(rets) ==
  /\ ~core.dragging
  /\ \/ \E e \in MouseEvents("mousedown") : MouseDown(e, rets)
     \/ /\ touching = {}
        /\ \E e \in TouchStarts : TouchStart(e, rets)

PointerMove(rets) ==
  \E n \in MoveNames : \E e \in StreamEvents(n) : DocumentMove(e, rets)

\* The release reaches the document's listener; the element's own handler
\* then finds no session (or, the stop vetoed, sees the same release again).
PointerUp(rets) ==
  \/ \E n \in StopNames : \E e \in StreamEvents(n) : DocumentStop(e, rets)
  \/ /\ ~core.dragging
     /\ \E e \in TouchEnds : TouchEnd(e, rets)

WholeArea == [maxX |-> MaxX, maxY |-> MaxY, audit |-> TRUE]

\* No bounds, no grid, scale 1, and a host that never vetoes; the position is
\* the host's (controlled) or the component's own.
FreeProps ==
  {BaseProps,
   [BaseProps EXCEPT !.position = [set |-> TRUE, x |-> 1, y |-> -1]],
   [BaseProps EXCEPT !.defaultPosition = [x |-> -1, y |-> 1]]}

InitFree == InitWith(WholeArea, FreeProps)

NextFree ==
  \/ componentDidMount
  \/ Return
  \/ PointerDown(NoVeto)
  \/ PointerMove(NoVeto)
  \/ PointerUp(NoVeto)

SpecFree == InitFree /\ [][NextFree]_vars

\* Bounds given as numbers, each side present or absent, left <= right and
\* top <= bottom; the element may start outside them.  The host may veto a
\* move, which is then not committed.
Rect(l, t, r, b) == [kind |-> "rect", left |-> l, top |-> t, right |-> r, bottom |-> b]

BoundedProps ==
  {[BaseProps EXCEPT !.bounds = Rect(0, NaN, 1, 0)],
   [BaseProps EXCEPT !.bounds = Rect(-1, 0, NaN, 1)],
   [BaseProps EXCEPT !.bounds = Rect(NaN, -1, 1, NaN), !.scale = 2,
                     !.defaultPosition = [x |-> 2, y |-> 0]]}

InitBounded == InitWith(WholeArea, BoundedProps)

NextBounded ==
  \/ componentDidMount
  \/ Return
  \/ PointerDown(NoVeto)
  \/ \E rets \in {r \in MoveRets : r.onStop} : PointerMove(rets)
  \/ PointerUp(NoVeto)

SpecBounded == InitBounded /\ [][NextBounded]_vars

\* =================================================================
\* The claims
\* =================================================================
Called(name) == \E i \in 1..Len(calls) : calls[i].name = name
Vetoed(name) == \E i \in 1..Len(calls) : calls[i].name = name /\ ~calls[i].ret
Passed(name) == \E i \in 1..Len(calls) : calls[i].name = name /\ calls[i].ret
CallOf(name) == calls[CHOOSE i \in 1..Len(calls) : calls[i].name = name]

DownHandlers == {"onMouseDown", "onTouchStart"}
UpHandlers == {"onMouseUp", "onTouchEnd", "mouseup", "touchend"}
DownHandled == ev.handler \in DownHandlers
MoveHandled == ev.handler \in MoveNames
UpHandled == ev.handler \in UpHandlers

\* C1: whenever the tracker's move callback returns false during an active
\* session, the session is closed and the document-level move/stop listeners
\* the session attached are detached by the time the move event is handled,
\* for mouse-initiated and for touch-initiated sessions alike.  (Stated for
\* the moves after which no stop callback vetoes, so that what keeps the
\* session open is not the stop callback's own veto.)
C1_MoveVetoClosesSession ==
  [][(core.dragging /\ MoveHandled' /\ Vetoed("core.onDrag")' /\ ~Vetoed("onStop")')
       => (~core'.dragging /\ listeners' \cap sess.opened = {})]_vars

C3_StopVetoKeepsSession ==
  [][/\ (core.dragging /\ UpHandled' /\ Vetoed("onStop")')
          => /\ core'.dragging /\ st'.dragging
             /\ core'.lastX = core.lastX /\ core'.lastY = core.lastY
             /\ listeners' = listeners
     /\ (core.dragging /\ st.dragging /\ MoveHandled'
         /\ (core.touchIdentifier = NoTouch \/ core.touchIdentifier \in ev'.touchIds))
          => Called("onDrag")']_vars

\* C3's case: a pointer-up whose stop callback vetoed, the session still open.
C3_Witness ==
  UpHandled /\ Vetoed("onStop") /\ core.dragging /\ {"mousemove", "mouseup"} \subseteq listeners

\* C4: after a pointer-up on an active session whose stop callback does not
\* veto, the tracker has dragging = false, lastX/lastY are NaN, the
\* text-selection guard is removed, and the move and stop listeners attached
\* when the session was opened are detached.
C4_StopClosesSession ==
  (UpHandled /\ Passed("core.onStop"))
    => /\ ~core.dragging
       /\ core.lastX = NaN /\ core.lastY = NaN
       /\ ~userSelect
       /\ listeners \cap sess.opened = {}

\* C5: whenever no drag session is active, no document-level move or stop
\* listener of either family is attached and the text-selection guard is
\* not applied.
C5_IdleOwnsNothing == ~core.dragging => (listeners = {} /\ ~userSelect)

\* C6: during a touch-initiated session, a move or stop event whose touch
\* lists lack the tracked identifier is dropped: no callback is invoked, and
\* the tracker's state and the reconciler's x, y and slack are unchanged.
C6_WrongFingerDropped ==
  [][(core.dragging /\ core.touchIdentifier # NoTouch
        /\ ev'.handler \in MoveNames \cup UpHandlers
        /\ core.touchIdentifier \notin ev'.touchIds)
       => (calls' = <<>> /\ core' = core /\ st' = st)]_vars

\* C6's case: a touchmove of another finger alone, handled during a touch session.
C6_Witness ==
  /\ ev.handler = "touchmove" /\ core.dragging
  /\ core.touchIdentifier = 0 /\ ev.touchIds = {1}

\* A move the host's onDrag did not veto: the reconciler committed its state.
Committed == MoveHandled /\ Passed("onDrag")

\* C7: over a down, moves, up stream with no bounds, no grid, scale 1 and no
\* veto, the position reported at stop is the position reported at start plus
\* the pointer's whole travel (the up event's included); the deltas delivered
\* to the start and move callbacks sum to (lastX, lastY reported at stop)
\* minus (x, y reported at start), and with the stop callback's own delta
\* they sum to (x, y reported at stop) minus (x, y reported at start).
C7_StopIsStartPlusTravel ==
  (UpHandled /\ Called("onStop"))
    => LET stop == CallOf("onStop")
       IN  /\ stop.x = sess.startX + sess.rawSumX
           /\ stop.y = sess.startY + sess.rawSumY
           /\ sess.sumDX = stop.lastX - sess.startX
           /\ sess.sumDY = stop.lastY - sess.startY
           /\ sess.sumDX + stop.deltaX = stop.x - sess.startX
           /\ sess.sumDY + stop.deltaY = stop.y - sess.startY

\* C7 as stated: the deltas delivered to all the callbacks, the stop
\* callback's included, sum to (lastX, lastY at stop) minus (x, y at start).
C7_AllDeltasReachLast ==
  (UpHandled /\ Called("onStop"))
    => LET stop == CallOf("onStop")
       IN  /\ stop.x = sess.startX + sess.rawSumX
           /\ stop.y = sess.startY + sess.rawSumY
           /\ sess.sumDX + stop.deltaX = stop.lastX - sess.startX
           /\ sess.sumDY + stop.deltaY = stop.lastY - sess.startY

\* C7's case: a stream whose moves travelled and whose release travelled
\* further, handled to its stop callback.
C7_Witness ==
  /\ UpHandled /\ Passed("onStop") /\ ~core.dragging
  /\ sess.sumDX # 0 /\ CallOf("onStop").deltaX # 0

Within(v, lo, hi) ==
  /\ isNum(v)
  /\ isNum(lo) => v >= lo
  /\ isNum(hi) => v <= hi

\* C8: with bounds configured, after every committed move x and y lie inside
\* the rectangle on each side that is present; an absent side is no limit.
C8_CommittedMoveInBounds ==
  (Committed /\ props.bounds.kind = "rect")
    => /\ Within(st.x, props.bounds.left, props.bounds.right)
       /\ Within(st.y, props.bounds.top, props.bounds.bottom)

\* C8's case: a committed move that pushed against the right side and was
\* held there.
C8_Witness ==
  /\ Committed /\ props.bounds.kind = "rect"
  /\ st.x = props.bounds.right /\ st.slackX > 0

\* C9: in a bounded drag with no veto, after every committed move x + slackX
\* is the unclamped position, x at drag start plus the core deltas over the
\* scale, and each move makes the slack the previous slack plus (provisional
\* position before the slack is added - clamped position); likewise for y.
C9_SlackIsClampedAway ==
  [][(Committed' /\ ~sess'.vetoed /\ props.bounds.kind = "rect")
       => LET move == CallOf("core.onDrag")'
          IN  /\ st'.x + st'.slackX = sess'.startX + Div(sess'.coreSumDX, props.scale)
              /\ st'.y + st'.slackY = sess'.startY + Div(sess'.coreSumDY, props.scale)
              /\ st'.slackX = st.slackX + ((st.x + Div(move.deltaX, props.scale)) - st'.x)
              /\ st'.slackY = st.slackY + ((st.y + Div(move.deltaY, props.scale)) - st'.y)]_vars

\* C9's case: a committed move that took back part of the slack held, in a
\* session nothing has vetoed.
C9_Witness ==
  /\ Committed /\ ~sess.vetoed /\ props.bounds.kind = "rect"
  /\ st.slackX > 0 /\ CallOf("core.onDrag").deltaX < 0

\* C10: after any committed move of a bounded drag, slackX > 0 only with x on
\* the right bound and slackX < 0 only with x on the left bound (slackY:
\* bottom and top), the position reported being the one held; and a move
\* that takes back no more than the slack leaves the position where it is.
C10_SlackConsumedFirst ==
  [][(Committed' /\ props.bounds.kind = "rect")
       => LET move == CallOf("core.onDrag")'
              dx == Div(move.deltaX, props.scale)
              dy == Div(move.deltaY, props.scale)
          IN  /\ CallOf("onDrag")'.x = st'.x /\ CallOf("onDrag")'.y = st'.y
              /\ st'.slackX > 0 => st'.x = props.bounds.right
              /\ (st'.slackX < 0 /\ isNum(st'.slackX)) => st'.x = props.bounds.left
              /\ st'.slackY > 0 => st'.y = props.bounds.bottom
              /\ (st'.slackY < 0 /\ isNum(st'.slackY)) => st'.y = props.bounds.top
              /\ (st.slackX > 0 /\ st.slackX + dx >= 0) => st'.x = st.x
              /\ (st.slackX < 0 /\ isNum(st.slackX) /\ st.slackX + dx <= 0) => st'.x = st.x
              /\ (st.slackY > 0 /\ st.slackY + dy >= 0) => st'.y = st.y
              /\ (st.slackY < 0 /\ isNum(st.slackY) /\ st.slackY + dy <= 0) => st'.y = st.y]_vars

\* C10's case: between bounds 0 and 1 a move to 2 is reported and held at 1
\* with a slack of 1.
C10_Witness ==
  /\ Committed /\ props.bounds.kind = "rect"
  /\ props.bounds.left = 0 /\ props.bounds.right = 1
  /\ sess.startX = 0 /\ sess.coreSumDX = 2 /\ ~sess.vetoed
  /\ CallOf("onDrag").x = 1 /\ st.x = 1 /\ st.slackX = 1

\* C11: when the host's onDrag returns false on a move of an open session,
\* the reconciler keeps x, y, slackX and slackY as they were, while the
\* tracker still advances lastX/lastY to the position of that move event.
C11_HostVetoKeepsTracking ==
  [][(core.dragging /\ st.dragging /\ MoveHandled' /\ Vetoed("onDrag")')
       => /\ st'.x = st.x /\ st'.y = st.y
          /\ st'.slackX = st.slackX /\ st'.slackY = st.slackY
          /\ core'.lastX = CallOf("core.onDrag")'.x
          /\ core'.lastY = CallOf("core.onDrag")'.y]_vars

\* ------------------------------------------------------- controlled position
\* What render hands to the transform: the stored position on an axis that
\* may be dragged, of a component that is not controlled or is dragging, and
\* the host's (or default) position otherwise.
canDragX == props.axis = "both" \/ props.axis = "x"
canDragY == props.axis = "both" \/ props.axis = "y"

\* The stored position is shown on both axes, whatever the axis prop says.
render_AnyAxis ==
  LET controlled == props.position.set
      draggable == ~controlled \/ st.dragging
      validPosition == IF props.position.set THEN props.position ELSE props.defaultPosition
  IN  [x |-> IF draggable THEN st.x ELSE validPosition.x,
       y |-> IF draggable THEN st.y ELSE validPosition.y]

render ==
  LET controlled == props.position.set
      draggable == ~controlled \/ st.dragging
      validPosition == IF props.position.set THEN props.position ELSE props.defaultPosition
  IN  [x |-> IF canDragX /\ draggable THEN st.x ELSE validPosition.x,
       y |-> IF canDragY /\ draggable THEN st.y ELSE validPosition.y]

\* The host supplies a position it never changes; bounds may hold the
\* element away from where the pointer leads it, and the host may veto moves.
ControlledProps ==
  {[BaseProps EXCEPT !.position = [set |-> TRUE, x |-> 1, y |-> -1]],
   [BaseProps EXCEPT !.position = [set |-> TRUE, x |-> 2, y |-> 0],
                     !.bounds = Rect(0, NaN, 1, 0)],
   [BaseProps EXCEPT !.position = [set |-> TRUE, x |-> 0, y |-> 1],
                     !.bounds = Rect(-1, 0, NaN, 1), !.axis = "x"]}

InitControlled == InitWith(WholeArea, ControlledProps)

SpecControlled == InitControlled /\ [][NextBounded]_vars

\* C12: with a controlled position P the host never changes, once a down,
\* moves, up cycle has ended with a stop that was not vetoed, the
\* reconciler's x, y and the rendered position are exactly P, whatever the
\* moves, the bounds and the slack were; the same holds whenever no drag is
\* in progress.
C12_ControlledReturnsToHost ==
  ((UpHandled /\ Passed("onStop")) \/ ~st.dragging)
    => /\ st.x = props.position.x /\ st.y = props.position.y
       /\ render.x = props.position.x /\ render.y = props.position.y

\* C12's case: a cycle whose moves took the element away from P, and held it
\* at a bound, has just ended with its stop callback.
C12_Witness ==
  /\ UpHandled /\ Passed("onStop") /\ props.bounds.kind = "rect"
  /\ CallOf("onStop").lastX # props.position.x
  /\ st.x = props.position.x /\ render.x = props.position.x

\* ------------------------------------------------------ the host's updates
\* The host renders the component again with new props, between two events:
\* getDerivedStateFromProps runs on the update.
Update(newProps) ==
  /\ mounted /\ ~torn
  /\ ev = Idle
  /\ props' = newProps
  /\ st' = getDerivedStateFromProps(newProps.position, st)
  /\ UNCHANGED <<mounted, torn, area, touching, core, dragEventFor, listeners, userSelect,
                 ev, calls, sess>>

HostPositions == {[set |-> TRUE, x |-> 0, y |-> 0], [set |-> TRUE, x |-> 1, y |-> -1]}

\* The host supplies a position: its first, or one after another.
SetPosition(p) == Update([props EXCEPT !.position = p])

\* The host enables or disables the component.
SetDisabled(b) == props.disabled # b /\ Update([props EXCEPT !.disabled = b])

HostArea == [maxX |-> MaxX - 1, maxY |-> MaxY, audit |-> FALSE]

InitHost == InitWith(HostArea, {BaseProps, [BaseProps EXCEPT !.disabled = TRUE]})

NextHost ==
  \/ NextFree
  \/ \E p \in HostPositions : SetPosition(p)
  \/ \E b \in BOOLEAN : SetDisabled(b)

SpecHost == InitHost /\ [][NextHost]_vars

\* C13: on every update, the first that supplies a position and those that
\* arrive during a drag included, a supplied position that differs from the
\* last one supplied becomes the reconciler's x, y at once; so whenever a
\* position is supplied and no drag is in progress, x, y equal it.
C13_SuppliedPositionAdopted ==
  [][/\ (props'.position.set /\ props'.position # props.position)
          => (st'.x = props'.position.x /\ st'.y = props'.position.y)
     /\ (props'.position.set /\ ~st'.dragging)
          => (st'.x = props'.position.x /\ st'.y = props'.position.y)]_vars

\* ------------------------------------------------------------- the axis
\* One axis, or none, may be dragged; no bounds, no grid, no veto.
AxisProps ==
  {[BaseProps EXCEPT !.axis = "x"],
   [BaseProps EXCEPT !.axis = "y", !.defaultPosition = [x |-> -1, y |-> 1]],
   [BaseProps EXCEPT !.axis = "none"],
   [BaseProps EXCEPT !.axis = "x", !.position = [set |-> TRUE, x |-> 1, y |-> -1]]}

InitAxis == InitWith(WholeArea, AxisProps)

SpecAxis == InitAxis /\ [][NextFree]_vars

\* The position the host supplies, or the default one.
validPosition == IF props.position.set THEN props.position ELSE props.defaultPosition

\* C14: with axis 'x' every move of a drag leaves the y of the visible
\* position as it was, the supplied or default y, while x moves by the
\* move's deltaX; with axis 'y' the same the other way round; with axis
\* 'none' neither component changes.
C14_AxisRestrictsVisible ==
  [][(st.dragging /\ MoveHandled' /\ Called("onDrag")')
       => LET move == CallOf("onDrag")'
          IN  /\ props.axis = "x" => /\ render'.y = render.y /\ render'.y = validPosition.y
                                     /\ render'.x = render.x + move.deltaX
              /\ props.axis = "y" => /\ render'.x = render.x /\ render'.x = validPosition.x
                                     /\ render'.y = render.y + move.deltaY
              /\ props.axis = "none" => /\ render' = render
                                        /\ render'.x = validPosition.x
                                        /\ render'.y = validPosition.y]_vars

\* C14's case: with axis 'x', a move that went both ways: the stored y
\* changed and the visible y did not.
C14_Witness ==
  /\ props.axis = "x" /\ MoveHandled /\ Passed("onDrag")
  /\ CallOf("onDrag").deltaX # 0 /\ CallOf("onDrag").deltaY # 0
  /\ st.y # validPosition.y /\ render.y = validPosition.y

\* -------------------------------------------------------------- the grid
\* A grid of 3 by 2 under a pointer that moves by single units; no bounds,
\* scale 1, no veto.
GridProps ==
  {[BaseProps EXCEPT !.grid = [set |-> TRUE, x |-> 3, y |-> 2],
                     !.defaultPosition = [x |-> -1, y |-> -1]],
   [BaseProps EXCEPT !.grid = [set |-> TRUE, x |-> 3, y |-> 2]]}

InitGrid == InitWith(WholeArea, GridProps)

SpecGrid == InitGrid /\ [][NextFree]_vars

\* A delta nearer to zero than to any other multiple of the step (halves
\* rounded upwards).
SnapsToZero(d, g) == -g <= 2 * d /\ 2 * d < g

Abs(d) == IF d < 0 THEN -d ELSE d

\* C15: with a grid, a move whose raw delta from lastX/lastY snaps to zero
\* on both axes invokes no callback and changes neither the tracker's nor
\* the reconciler's state.
C15_ZeroSnapSuppressed ==
  [][(core.dragging /\ props.grid.set /\ MoveHandled'
        /\ SnapsToZero(sess'.rawX - core.lastX, props.grid.x)
        /\ SnapsToZero(sess'.rawY - core.lastY, props.grid.y))
       => (calls' = <<>> /\ core' = core /\ st' = st)]_vars

\* C15's case: a move away from lastX that stayed under half a step.
C15_Witness ==
  /\ core.dragging /\ props.grid.set /\ MoveHandled
  /\ sess.rawX # core.lastX /\ calls = <<>>

\* C16: with a grid, a move callback is invoked exactly when the delta
\* accumulated since the last reported position rounds to a step that is not
\* zero on some axis, that is from half a step on; it then reports whole
\* steps and lastX/lastY advance by them.
C16_CallbackFromHalfStep ==
  [][(core.dragging /\ props.grid.set /\ MoveHandled')
       => LET dx == sess'.rawX - core.lastX
              dy == sess'.rawY - core.lastY
          IN  /\ Called("core.onDrag")'
                   <=> ~(SnapsToZero(dx, props.grid.x) /\ SnapsToZero(dy, props.grid.y))
              /\ Called("core.onDrag")'
                   => LET move == CallOf("core.onDrag")'
                      IN  /\ move.deltaX % props.grid.x = 0
                          /\ move.deltaY % props.grid.y = 0
                          /\ Abs(move.deltaX - dx) * 2 <= props.grid.x
                          /\ Abs(move.deltaY - dy) * 2 <= props.grid.y
                          /\ core'.lastX = core.lastX + move.deltaX
                          /\ core'.lastY = core.lastY + move.deltaY]_vars

\* C16 as stated: a move callback is invoked only once the accumulated delta
\* has reached a whole step on at least one axis.
C16_CallbackFromWholeStep ==
  [][(core.dragging /\ props.grid.set /\ MoveHandled' /\ Called("core.onDrag")')
       => \/ Abs(sess'.rawX - core.lastX) >= props.grid.x
          \/ Abs(sess'.rawY - core.lastY) >= props.grid.y]_vars

\* C16's case: the pointer has come 2 units from the last reported position
\* on a step of 3, and the move is reported as a whole step.
C16_Witness ==
  /\ props.grid.set /\ MoveHandled /\ Called("core.onDrag")
  /\ sess.rawSumX = 2 /\ sess.rawSumY = 0
  /\ CallOf("core.onDrag").deltaX = props.grid.x
  /\ sess.sumDX = props.grid.x

\* ------------------------------------------------ moves outside a session
\* C18: a move event handled while the tracker has no session invokes no
\* callback and leaves the tracker's state (dragging, lastX, lastY,
\* touchIdentifier) as it was.
C18_MoveWithoutSessionIsNoOp ==
  [][(~core.dragging /\ MoveHandled') => (calls' = <<>> /\ core' = core)]_vars

\* ------------------------------------------------- the order of callbacks
\* C17: the tracker's callbacks come in the order start, moves, stop: a move
\* or stop callback is invoked only in a session, which only a start callback
\* that did not veto opens and which a stop callback that did not veto
\* closes.
C17_StartMovesStop ==
  [][/\ (Called("core.onDrag")' \/ Called("core.onStop")') => core.dragging
     /\ (~core.dragging /\ core'.dragging) => Passed("core.onStart")'
     /\ Passed("core.onStop")' => ~core'.dragging]_vars

\* --------------------------------------------------------------- teardown
\* The host unmounts the component between two events.
Unmount ==
  /\ mounted /\ ~torn /\ ev = Idle
  /\ torn' = componentWillUnmount(World).torn
  /\ st' = componentWillUnmount(World).st
  /\ UNCHANGED <<mounted, area, touching, props, core, dragEventFor, listeners, userSelect,
                 ev, calls, sess>>

\* One pointer stream at a time, under a host that may veto and may unmount
\* the component between two events or from inside any of its callbacks.
TeardownArea == [maxX |-> MaxX - 1, maxY |-> MaxY, audit |-> FALSE]

InitTeardown == InitWith(TeardownArea, {BaseProps})

NextTeardown ==
  \/ componentDidMount
  \/ Return
  \/ Unmount
  \/ \E rets \in {r \in AllRets : r.onDrag /\ r.onStop} : PointerDown(rets)
  \/ \E rets \in {r \in AllRets : r.onStart /\ (r.onDrag => r.onStop)} : PointerMove(rets)
  \/ \E rets \in {r \in AllRets : r.onStart /\ r.onDrag} : PointerUp(rets)

SpecTeardown == InitTeardown /\ [][NextTeardown]_vars

\* C19: from the moment the component is torn down, be it between two events
\* or inside a start, move or stop callback, nothing of the instance changes
\* any more: the handler in which the teardown happened opens no session,
\* attaches no listeners and touches neither the selection guard nor the
\* reconciler's state, and no later event changes anything or invokes a
\* callback.
C19_TornIsInert ==
  [][/\ (~torn /\ torn')
          => /\ core'.dragging = core.dragging
             /\ core'.lastX = core.lastX /\ core'.lastY = core.lastY
             /\ st' = st /\ listeners' = listeners /\ userSelect' = userSelect
     /\ torn
          => /\ core' = core /\ st' = st /\ listeners' = listeners
             /\ userSelect' = userSelect /\ dragEventFor' = dragEventFor
             /\ calls' = <<>>]_vars

\* ---------------------------------------------------------------- disabled
\* C20: while disabled is true, no event makes onStart, onDrag or onStop fire
\* or opens a session; a pointer-down still reaches the onMouseDown
\* pass-through.
C20_DisabledIsSilent ==
  [][(props.disabled /\ ev = Idle /\ ev' # Idle)
       => /\ ~Called("onStart")' /\ ~Called("onDrag")' /\ ~Called("onStop")'
          /\ ~Called("core.onStart")' /\ ~Called("core.onDrag")' /\ ~Called("core.onStop")'
          /\ (~core.dragging => ~core'.dragging)
          /\ DownHandled' => Called("onMouseDown")']_vars

\* -------------------------------------------------- the record of a start
\* C21: every start callback is handed a record with no delta: the
\* tracker's has deltaX = deltaY = 0 and lastX, lastY equal to x, y, and the
\* host's has the reconciler's current x, y and deltaX = deltaY = 0,
\* whatever events came before the pointer-down.
C21_StartHasNoDelta ==
  [][(DownHandled' /\ Called("core.onStart")')
       => LET start == CallOf("core.onStart")'
              told == CallOf("onStart")'
          IN  /\ start.deltaX = 0 /\ start.deltaY = 0
              /\ start.lastX = start.x /\ start.lastY = start.y
              /\ told.deltaX = 0 /\ told.deltaY = 0
              /\ told.x = st.x /\ told.y = st.y]_vars

\* ------------------------------------------- a pointer-down with no node
\* A pointer-down reaches the handlers of the element after the component
\* was unmounted.
DetachedMouseDown(e, rets) ==
  mounted /\ torn /\ Handled(onMouseDown(World, e, rets), "onMouseDown", e)

DetachedTouchStart(e, rets) ==
  mounted /\ torn /\ Handled(onTouchStart(World, e, rets), "onTouchStart", e)

InitDetached == InitWith(TeardownArea, {BaseProps, [BaseProps EXCEPT !.disabled = TRUE]})

NextDetached ==
  \/ NextTeardown
  \/ \E e \in MouseDowns : DetachedMouseDown(e, NoVeto)
  \/ \E e \in TouchStarts : DetachedTouchStart(e, NoVeto)

SpecDetached == InitDetached /\ [][NextDetached]_vars

\* The pointer-down passes the button filter.
Allowed(button) == props.allowAnyClick \/ button = NoButton \/ button = 0

\* C22 as stated: every pointer-down handled when the element is not mounted
\* raises the error, and nothing of the tracker changes.
C22_EveryDownRaises ==
  [][(torn /\ DownHandled')
       => /\ Called("Error")'
          /\ ~Called("core.onStart")' /\ ~Called("onStart")'
          /\ core' = core /\ listeners' = listeners]_vars

\* C22's case: a primary-button mousedown on the unmounted element of a
\* disabled component has raised the error.
C22_Witness ==
  /\ torn /\ ev.handler = "onMouseDown" /\ ev.button = 0 /\ props.disabled
  /\ Called("Error") /\ Called("onMouseDown") /\ Len(calls) = 2

\* C22: a pointer-down that passes the button filter and is handled when
\* the element is not mounted raises the error, after the onMouseDown
\* pass-through and before anything else: no start callback, and the
\* tracker state, the listeners and the selection guard are as they were.  A
\* pointer-down that the button filter rejects is dropped without an error,
\* mounted or not.
C22_NotMountedRaises ==
  [][(torn /\ DownHandled')
       => /\ Called("Error")' <=> Allowed(ev'.button)
          /\ Called("onMouseDown")'
          /\ ~Called("core.onStart")' /\ ~Called("onStart")'
          /\ core' = core /\ st' = st
          /\ listeners' = listeners /\ userSelect' = userSelect]_vars

\* ------------------------------------------------- bounds by a selector
\* Bounds named by a selector: one that finds no element, and one that finds
\* an element whose layout leaves the element the room from 0 to 1 on x.
Selector(found, l, t, r, b) ==
  [kind |-> IF found THEN "selector" ELSE "missing",
   left |-> l, top |-> t, right |-> r, bottom |-> b]

SelectorProps ==
  {[BaseProps EXCEPT !.bounds = Selector(FALSE, NaN, NaN, NaN, NaN)],
   [BaseProps EXCEPT !.bounds = Selector(TRUE, 0, 0, 1, 1)]}

InitSelector == InitWith(WholeArea, SelectorProps)

SpecSelector == InitSelector /\ [][NextFree]_vars

\* C23: with bounds a selector that finds no element, a move in a session
\* raises an error: the host's move callback is not invoked, and the
\* reconciler's x, y, slackX, slackY and the tracker's lastX, lastY stay as
\* they were.
C23_MissingBoundsRaise ==
  [][(core.dragging /\ st.dragging /\ props.bounds.kind = "missing" /\ MoveHandled')
       => /\ Called("Error")' /\ ~Called("onDrag")'
          /\ st' = st /\ core' = core]_vars

\* C23's case: the pointer has moved away from where the session began, and
\* the move ended in the error.
C23_Witness ==
  /\ props.bounds.kind = "missing" /\ MoveHandled /\ core.dragging
  /\ Called("Error") /\ sess.rawX # core.lastX

\* ------------------------------------------------------ the slack at stop
\* The same bounds on an uncontrolled and on a controlled element; the host
\* may veto moves.
SlackProps ==
  {[BaseProps EXCEPT !.bounds = Rect(0, NaN, 1, 0)],
   [BaseProps EXCEPT !.bounds = Rect(0, NaN, 1, 0),
                     !.position = [set |-> TRUE, x |-> 0, y |-> 0]]}

InitSlack == InitWith(WholeArea, SlackProps)

SpecSlack == InitSlack /\ [][NextBounded]_vars

\* C24: a stop callback that does not veto leaves slackX = slackY = 0,
\* controlled or not, and on an uncontrolled element x, y stay where the
\* last committed move left them.
C24_StopClearsSlack ==
  [][(st.dragging /\ Passed("onStop")')
       => /\ st'.slackX = 0 /\ st'.slackY = 0 /\ ~st'.dragging
          /\ ~props.position.set => (st'.x = st.x /\ st'.y = st.y)]_vars

\* C24's case: the pointer went 2 to the right, the uncontrolled element was
\* held at the bound after 1, and the release where the pointer was closed
\* the session.
C24_Witness ==
  /\ UpHandled /\ Passed("onStop") /\ ~props.position.set
  /\ sess.startX = 0 /\ sess.rawSumX = 2 /\ CallOf("core.onStop").deltaX = 0
  /\ CallOf("onStop").lastX = 1 /\ st.x = 1 /\ st.slackX = 0

\* ------------------------------------------------------ the device family
\* C25: the remembered device family, mouse at first, changes to touch only
\* on a touch-start and back to mouse only on a mouse-down; no mouse-up,
\* touch-end or move changes it.
C25_FamilyFollowsStarts ==
  [][(dragEventFor' # dragEventFor)
       => \/ dragEventFor' = "touch" /\ ev'.handler = "onTouchStart"
          \/ dragEventFor' = "mouse" /\ ev'.handler = "onMouseDown"]_vars

\* ------------------------------------------- pointer-downs that open nothing
\* C26: a pointer-down that opens no session, filtered out or vetoed by the
\* start callback, leaves the tracker's state as it was, the tracked touch
\* identifier and the remembered device family included.
C26_RejectedDownChangesNothing ==
  [][(DownHandled' /\ ~Passed("core.onStart")')
       => (core' = core /\ dragEventFor' = dragEventFor)]_vars

\* ------------------------------------------------- the two dragging flags
\* C27: whenever an event has been handled to completion, the tracker's
\* dragging flag and the reconciler's are equal, whatever the events and the
\* host's vetoes on start, move and stop were.
C27_DraggingFlagsAgree == core.dragging = st.dragging

\* C27's case: a move the host vetoed, the stop it forced vetoed as well, and
\* the session open in both components.
C27_Witness ==
  /\ MoveHandled /\ Vetoed("onDrag") /\ Vetoed("onStop")
  /\ core.dragging /\ st.dragging

\* ------------------------------------------------ the grid over a session
\* Where the pointer was when the session began.
PointerAtStart == [x |-> sess.rawX - sess.rawSumX, y |-> sess.rawY - sess.rawSumY]

\* C28: with a grid and no veto, every move callback reports deltas that are
\* multiples of the step, lastX, lastY are away from where the session began
\* by multiples of the step, and after every handled move, reported or not,
\* lastX, lastY are within half a step of the pointer.
C28_GridKeepsRemainder ==
  (core.dragging /\ props.grid.set)
    => /\ (core.lastX - PointerAtStart.x) % props.grid.x = 0
       /\ (core.lastY - PointerAtStart.y) % props.grid.y = 0
       /\ MoveHandled
            => /\ 2 * Abs(sess.rawX - core.lastX) <= props.grid.x
               /\ 2 * Abs(sess.rawY - core.lastY) <= props.grid.y
               /\ Called("core.onDrag")
                    => /\ CallOf("core.onDrag").deltaX % props.grid.x = 0
                       /\ CallOf("core.onDrag").deltaY % props.grid.y = 0
                       /\ CallOf("onDrag").deltaX % props.grid.x = 0
                       /\ CallOf("onDrag").deltaY % props.grid.y = 0

\* C28's case: a move is reported as one whole step on x although the pointer
\* is one unit short of it.
C28_Witness ==
  /\ core.dragging /\ props.grid.set /\ MoveHandled /\ Called("onDrag")
  /\ core.lastX - PointerAtStart.x = props.grid.x
  /\ core.lastX - sess.rawX = 1

====
